---- MODULE Spec2Model ----
(***************************************************************************)
(* IAMCredentialsGrpcAsyncIOTransport                                      *)
(* (google/cloud/iam_credentials_v1/services/iam_credentials/transports/   *)
(* grpc_asyncio.py): construction of the transport, the lazily created     *)
(* channel and the four memoized method stubs.                             *)
(*                                                                         *)
(* Python values are modelled as follows.  None is the string "None" for   *)
(* credentials, credentials_file and quota_project_id, the empty sequence  *)
(* for api_mtls_endpoint and scopes (both are only tested for truthiness,  *)
(* where None and the empty value agree), 0 for client_cert_source and     *)
(* NoChannel for channel.  A host is the sequence of its tokens, so that   *)
(* the test  ":" in api_mtls_endpoint  and the concatenation with ":443"   *)
(* are computed.  A dict is a function whose DOMAIN is its set of keys.    *)
(* Objects made by the RPC library (channels, stubs) are named by who made *)
(* them and a sequence number, so two calls never return the same object.  *)
(* The library calls are assumed to return; the one error modelled is      *)
(* DuplicateCredentialArgs.                                                *)
(***************************************************************************)
EXTENDS Naturals, Sequences, FiniteSets

\* Number of distinct client_cert_source callbacks a caller may pass.
MaxCallbacks == 2

Instances == {"a", "b"}

None == "None"

\* ------------------------------------------------------------------------
\* Argument values
\* ------------------------------------------------------------------------

DefaultHost == <<"iamcredentials.googleapis.com">>

Hosts == {DefaultHost, <<"localhost", ":", "8080">>}

CredentialValues == {None, "cred"}

CredentialFiles == {None, "sa.json"}

ScopeValues == {<<>>, <<"custom.scope">>}

QuotaValues == {None, "billing-project"}

MtlsEndpoints == {<<>>, <<"iamcredentials.mtls.googleapis.com">>,
                  <<"iamcredentials.mtls.googleapis.com", ":", "8443">>}

ClientCertSources == 0..MaxCallbacks

NoChannel == [kind |-> "none", by |-> "", n |-> 0]

PassedChannels == {[kind |-> "passed", by |-> "caller", n |-> k] : k \in 1..2}

ChannelValues == {NoChannel} \cup PassedChannels

AUTH_SCOPES == <<"https://www.googleapis.com/auth/cloud-platform">>

NoArgs == [host |-> <<>>, credentials |-> None, credentials_file |-> None,
           scopes |-> <<>>, channel |-> NoChannel, api_mtls_endpoint |-> <<>>,
           client_cert_source |-> 0, quota_project_id |-> None]

AllArgs == [host : Hosts, credentials : CredentialValues,
            credentials_file : CredentialFiles, scopes : ScopeValues,
            channel : ChannelValues, api_mtls_endpoint : MtlsEndpoints,
            client_cert_source : ClientCertSources,
            quota_project_id : QuotaValues]

\* The arguments two transports are built with when they are compared: the
\* ones that decide which channel each one uses.
ChannelArgs == {a \in AllArgs : /\ a.host = DefaultHost
                                /\ a.credentials = None
                                /\ a.credentials_file = None
                                /\ a.scopes = <<>>
                                /\ a.client_cert_source = 0
                                /\ a.quota_project_id = None
                                /\ a.channel.n <= 1
                                /\ Len(a.api_mtls_endpoint) # 1}

\* ------------------------------------------------------------------------
\* Python truth values and the external collaborators
\* ------------------------------------------------------------------------

TruthyStr(s) == s \notin {None, "False", ""}

TruthySeq(s) == Len(s) > 0

TruthyChannel(c) == c.kind # "none"

TruthyCallback(cb) == cb # 0

\* ":" in s
HasColon(s) == \E k \in 1..Len(s) : s[k] = ":"

\* client_cert_source(): callback cb returns its own (cert, key) pair.
CallCertSource(cb) == <<[pem |-> "CERTIFICATE", of |-> cb],
                        [pem |-> "PRIVATE KEY", of |-> cb]>>

NoSsl == [kind |-> "none", certificate_chain |-> [pem |-> "", of |-> 0],
          private_key |-> [pem |-> "", of |-> 0]]

\* SslCredentials().ssl_credentials: the application default SSL credentials.
DefaultSsl == [kind |-> "application_default",
               certificate_chain |-> [pem |-> "", of |-> 0],
               private_key |-> [pem |-> "", of |-> 0]]

\* grpc.ssl_channel_credentials(certificate_chain=cert, private_key=key)
SslChannelCredentials(cert, key) ==
    [kind |-> "client_cert", certificate_chain |-> cert, private_key |-> key]

VARIABLES state, error, args, grpc_channel, host_, credentials_, baseArgs,
          own, stubs, classStubs, createLog, certLog, made, madeBy,
          unaryCalls, channelReads, returned, hit

vars == <<state, error, args, grpc_channel, host_, credentials_, baseArgs,
          own, stubs, classStubs, createLog, certLog, made, madeBy,
          unaryCalls, channelReads, returned, hit>>

MethodKeys == {"generate_access_token", "generate_id_token", "sign_blob",
               "sign_jwt"}

EmptyDict == [k \in {} |-> 0]

NoBaseArgs == [host |-> <<>>, credentials |-> None, credentials_file |-> None,
               scopes |-> <<>>, quota_project_id |-> None]

Init ==
    /\ state = [i \in Instances |-> "none"]
    /\ error = [i \in Instances |-> ""]
    /\ args = [i \in Instances |-> NoArgs]
    /\ grpc_channel = [i \in Instances |-> NoChannel]
    /\ host_ = [i \in Instances |-> <<>>]
    /\ credentials_ = [i \in Instances |-> None]
    /\ baseArgs = [i \in Instances |-> NoBaseArgs]
    /\ own = [i \in Instances |-> FALSE]
    /\ stubs = [i \in Instances |-> EmptyDict]
    /\ classStubs = EmptyDict
    /\ createLog = [i \in Instances |-> <<>>]
    /\ certLog = [i \in Instances |-> <<>>]
    /\ made = {}
    /\ madeBy = [i \in Instances |-> {}]
    /\ unaryCalls = [i \in Instances |-> [k \in MethodKeys |-> 0]]
    /\ channelReads = [i \in Instances |-> {}]
    /\ returned = [i \in Instances |-> [k \in MethodKeys |-> {}]]
    /\ hit = [i \in Instances |-> [k \in MethodKeys |-> FALSE]]

\* ------------------------------------------------------------------------
\* __init__
\* ------------------------------------------------------------------------

\* Slip: the mutual TLS branch is tested before the provided channel.
Branch_mtlsFirst(channel, api_mtls_endpoint) ==
    IF TruthySeq(api_mtls_endpoint) THEN "mtls"
    ELSE IF TruthyChannel(channel) THEN "channel"
    ELSE "lazy"

\* if channel: ... elif api_mtls_endpoint: ... (otherwise no channel is set)
Branch(channel, api_mtls_endpoint) ==
    IF TruthyChannel(channel) THEN "channel"
    ELSE IF TruthySeq(api_mtls_endpoint) THEN "mtls"
    ELSE "lazy"

\* Slip: credentials = False  on every path.
InitCredentials_dropped(br, credentials) == "False"

\* credentials = False  when a channel is provided
InitCredentials(br, credentials) ==
    IF br = "channel" THEN "False" ELSE credentials

\* host = api_mtls_endpoint if ":" in api_mtls_endpoint
\*        else api_mtls_endpoint + ":443"       (mutual TLS branch only)
InitHost(br, api_mtls_endpoint, host) ==
    IF br = "mtls"
    THEN IF HasColon(api_mtls_endpoint) THEN api_mtls_endpoint
         ELSE api_mtls_endpoint \o <<":", "443">>
    ELSE host

\* Slip: the callback is called before the branch is chosen.
CertSourceCalls_eager(br, client_cert_source) ==
    IF TruthyCallback(client_cert_source)
    THEN <<CallCertSource(client_cert_source)>>
    ELSE <<>>

\* The results of the calls of client_cert_source made by the constructor.
CertSourceCalls(br, client_cert_source) ==
    IF br = "mtls" /\ TruthyCallback(client_cert_source)
    THEN <<CallCertSource(client_cert_source)>>
    ELSE <<>>

\* cert, key = client_cert_source(); the SSL credentials of the new channel
InitSslCredentials(client_cert_source, pairs) ==
    IF TruthyCallback(client_cert_source)
    THEN SslChannelCredentials(pairs[1][1], pairs[1][2])
    ELSE DefaultSsl

\* scopes or AUTH_SCOPES
ScopesOrDefault(scopes) == IF TruthySeq(scopes) THEN scopes ELSE AUTH_SCOPES

\* The classmethod create_channel: the call it hands to
\* grpc_helpers_async.create_channel.
create_channel(host, credentials, credentials_file, scopes, quota_project_id, ssl_credentials) ==
    [host |-> host, credentials |-> credentials,
     credentials_file |-> credentials_file,
     scopes |-> ScopesOrDefault(scopes),
     quota_project_id |-> quota_project_id,
     ssl_credentials |-> ssl_credentials]

\* The channel object a create_channel call of instance i returns.
NewChannel(i) == [kind |-> "created", by |-> i, n |-> Len(createLog[i]) + 1]

\* The helper library is handed both credentials and credentials_file: it
\* is outside this repository, and may reject the call or accept it.
HelperMayRaise(call) ==
    TruthyStr(call.credentials) /\ TruthyStr(call.credentials_file)

\* IAMCredentialsTransport.__init__ (base.py): credentials and
\* credentials_file are mutually exclusive.
BaseRaisesDuplicate(b) ==
    TruthyStr(b.credentials) /\ TruthyStr(b.credentials_file)

\* IAMCredentialsTransport.__init__ (base.py): the credentials it keeps.
BaseCredentials(b) ==
    IF b.credentials_file # None THEN "loaded_from_file"
    ELSE IF b.credentials = None THEN "application_default"
    ELSE b.credentials

\* Slip: the statement is left out, and the class attribute stays in use.
SetsOwnStubs_omitted == FALSE

\* self._stubs = {}  is the constructor's last statement.
SetsOwnStubs == TRUE

\* The arguments handed to super().__init__
BaseCall(br, a) ==
    [host |-> InitHost(br, a.api_mtls_endpoint, a.host),
     credentials |-> InitCredentials(br, a.credentials),
     credentials_file |-> a.credentials_file,
     scopes |-> ScopesOrDefault(a.scopes),
     quota_project_id |-> a.quota_project_id]

Construct(i, a, helperRaises) ==
    LET br == Branch(a.channel, a.api_mtls_endpoint)
        pairs == CertSourceCalls(br, a.client_cert_source)
        call == create_channel(
                    InitHost(br, a.api_mtls_endpoint, a.host),
                    InitCredentials(br, a.credentials),
                    a.credentials_file,
                    ScopesOrDefault(a.scopes),
                    a.quota_project_id,
                    InitSslCredentials(a.client_cert_source, pairs))
        b == BaseCall(br, a)
        raisedByHelper == br = "mtls" /\ helperRaises
        raisedByBase == ~raisedByHelper /\ BaseRaisesDuplicate(b)
        ok == ~raisedByHelper /\ ~raisedByBase
    IN  /\ state[i] = "none"
        /\ helperRaises => (br = "mtls" /\ HelperMayRaise(call))
        /\ args' = [args EXCEPT ![i] = a]
        /\ certLog' = [certLog EXCEPT ![i] = pairs]
        /\ createLog' = [createLog EXCEPT
                           ![i] = IF br = "mtls" THEN <<call>> ELSE <<>>]
        /\ grpc_channel' = [grpc_channel EXCEPT
                              ![i] = IF ~ok THEN NoChannel
                                     ELSE IF br = "channel" THEN a.channel
                                     ELSE IF br = "mtls" THEN NewChannel(i)
                                     ELSE NoChannel]
        /\ baseArgs' = [baseArgs EXCEPT
                          ![i] = IF raisedByHelper THEN NoBaseArgs ELSE b]
        /\ host_' = [host_ EXCEPT ![i] = IF ok THEN b.host ELSE <<>>]
        /\ credentials_' = [credentials_ EXCEPT
                              ![i] = IF ok THEN BaseCredentials(b) ELSE None]
        /\ state' = [state EXCEPT ![i] = IF ok THEN "ready" ELSE "failed"]
        /\ error' = [error EXCEPT
                       ![i] = IF ok THEN "" ELSE "DuplicateCredentialArgs"]
        /\ own' = [own EXCEPT ![i] = ok /\ SetsOwnStubs]
        /\ stubs' = [stubs EXCEPT ![i] = EmptyDict]
        /\ UNCHANGED <<classStubs, made, madeBy, unaryCalls, channelReads,
                       returned, hit>>

\* ------------------------------------------------------------------------
\* The properties
\* ------------------------------------------------------------------------

\* Slip: the cached channel is never looked at.
LacksChannel_always(i) == TRUE

\* not hasattr(self, "_grpc_channel")
LacksChannel(i) == grpc_channel[i] = NoChannel

\* self._stubs: the instance attribute, or the class attribute behind it.
StubsOf(i) == IF own[i] THEN stubs[i] ELSE classStubs

\* Slip: the cache is never consulted.
NotCached_always(d, key) == TRUE

\* key not in self._stubs
NotCached(d, key) == key \notin DOMAIN d

\* Slip: self._stubs = {key: stub}
StoreStub_replacing(d, key, stub) == [k \in {key} |-> stub]

\* self._stubs[key] = stub
StoreStub(d, key, stub) ==
    [k \in DOMAIN d \cup {key} |-> IF k = key THEN stub ELSE d[k]]

\* The value of the property grpc_channel for instance i.
ChannelOf(i) == IF LacksChannel(i) THEN NewChannel(i) ELSE grpc_channel[i]

\* What an evaluation of the property grpc_channel changes.
EvalGrpcChannel(i) ==
    /\ grpc_channel' = [grpc_channel EXCEPT ![i] = ChannelOf(i)]
    /\ createLog' = [createLog EXCEPT
                       ![i] = IF LacksChannel(i)
                              THEN Append(@, create_channel(host_[i],
                                       credentials_[i], None, <<>>, None,
                                       NoSsl))
                              ELSE @]
    /\ channelReads' = [channelReads EXCEPT ![i] = @ \cup {ChannelOf(i)}]

grpc_channel_property(i) ==
    /\ state[i] = "ready"
    /\ EvalGrpcChannel(i)
    /\ UNCHANGED <<state, error, args, host_, credentials_, baseArgs, own,
                   stubs, classStubs, certLog, made, madeBy, unaryCalls,
                   returned, hit>>

\* channel.unary_unary(route, request_serializer=..., response_deserializer=...)
\* returns a new callable each time it is called.
unary_unary(ch, route, request, response) ==
    [channel |-> ch, route |-> route,
     request_serializer |-> request, response_deserializer |-> response,
     n |-> Cardinality({s \in made : s.channel = ch /\ s.route = route})]

\* The body shared by the four method properties.
StubProperty(i, key, route, request, response) ==
    LET d == StubsOf(i)
        stub == unary_unary(ChannelOf(i), route, request, response)
        d2 == IF NotCached(d, key) THEN StoreStub(d, key, stub) ELSE d
    IN  /\ state[i] = "ready"
        /\ IF NotCached(d, key)
           THEN /\ EvalGrpcChannel(i)
                /\ made' = made \cup {stub}
                /\ madeBy' = [madeBy EXCEPT ![i] = @ \cup {stub}]
                /\ unaryCalls' = [unaryCalls EXCEPT ![i][key] = @ + 1]
                /\ IF own[i]
                   THEN stubs' = [stubs EXCEPT ![i] = d2]
                        /\ UNCHANGED classStubs
                   ELSE classStubs' = d2 /\ UNCHANGED stubs
                /\ UNCHANGED hit
           ELSE /\ hit' = [hit EXCEPT ![i][key] = TRUE]
                /\ UNCHANGED <<grpc_channel, createLog, channelReads, made,
                               madeBy, unaryCalls, stubs, classStubs>>
        /\ returned' = [returned EXCEPT ![i][key] = @ \cup {d2[key]}]
        /\ UNCHANGED <<state, error, args, host_, credentials_, baseArgs,
                       own, certLog>>

GenerateAccessTokenRoute ==
    "/google.iam.credentials.v1.IAMCredentials/GenerateAccessToken"

GenerateIdTokenRoute ==
    "/google.iam.credentials.v1.IAMCredentials/GenerateIdToken"

SignBlobRoute == "/google.iam.credentials.v1.IAMCredentials/SignBlob"

\* Slip: the route of the property above is copied.
SignJwtRoute_copied == SignBlobRoute

SignJwtRoute == "/google.iam.credentials.v1.IAMCredentials/SignJwt"

generate_access_token(i) ==
    StubProperty(i, "generate_access_token", GenerateAccessTokenRoute,
                 "GenerateAccessTokenRequest.serialize",
                 "GenerateAccessTokenResponse.deserialize")

generate_id_token(i) ==
    StubProperty(i, "generate_id_token", GenerateIdTokenRoute,
                 "GenerateIdTokenRequest.serialize",
                 "GenerateIdTokenResponse.deserialize")

sign_blob(i) ==
    StubProperty(i, "sign_blob", SignBlobRoute,
                 "SignBlobRequest.serialize", "SignBlobResponse.deserialize")

sign_jwt(i) ==
    StubProperty(i, "sign_jwt", SignJwtRoute,
                 "SignJwtRequest.serialize", "SignJwtResponse.deserialize")

\* ------------------------------------------------------------------------
\* Specifications
\* ------------------------------------------------------------------------

\* One transport, built with any arguments.
NewTransport ==
    \E a \in AllArgs : \E r \in BOOLEAN : Construct("a", a, r)

ReadChannel == grpc_channel_property("a")

GetGenerateAccessToken == generate_access_token("a")

GetGenerateIdToken == generate_id_token("a")

GetSignBlob == sign_blob("a")

GetSignJwt == sign_jwt("a")

Next ==
    \/ NewTransport
    \/ ReadChannel
    \/ GetGenerateAccessToken
    \/ GetGenerateIdToken
    \/ GetSignBlob
    \/ GetSignJwt

Spec == Init /\ [][Next]_vars

\* Two transports side by side, their accesses interleaved.
NewTransport2 ==
    \E i \in Instances : \E a \in ChannelArgs : Construct(i, a, FALSE)

ReadChannel2 == \E i \in Instances : grpc_channel_property(i)

GetGenerateAccessToken2 == \E i \in Instances : generate_access_token(i)

GetGenerateIdToken2 == \E i \in Instances : generate_id_token(i)

GetSignBlob2 == \E i \in Instances : sign_blob(i)

GetSignJwt2 == \E i \in Instances : sign_jwt(i)

NextShared ==
    \/ NewTransport2
    \/ ReadChannel2
    \/ GetGenerateAccessToken2
    \/ GetGenerateIdToken2
    \/ GetSignBlob2
    \/ GetSignJwt2

SpecShared == Init /\ [][NextShared]_vars

\* ------------------------------------------------------------------------
\* Properties
\* ------------------------------------------------------------------------

BothCredentials(i) ==
    TruthyStr(args[i].credentials) /\ TruthyStr(args[i].credentials_file)

\* The host an endpoint stands for: itself, with port 443 when it names none.
EndpointHost(e) == IF HasColon(e) THEN e ELSE e \o <<":", "443">>

ExpectedRoute(key) ==
    CASE key = "generate_access_token" ->
             "/google.iam.credentials.v1.IAMCredentials/GenerateAccessToken"
      [] key = "generate_id_token" ->
             "/google.iam.credentials.v1.IAMCredentials/GenerateIdToken"
      [] key = "sign_blob" ->
             "/google.iam.credentials.v1.IAMCredentials/SignBlob"
      [] key = "sign_jwt" ->
             "/google.iam.credentials.v1.IAMCredentials/SignJwt"

\* The access of the method property named key by instance i.
Access(i, key) ==
    CASE key = "generate_access_token" -> generate_access_token(i)
      [] key = "generate_id_token" -> generate_id_token(i)
      [] key = "sign_blob" -> sign_blob(i)
      [] key = "sign_jwt" -> sign_jwt(i)

\* C1: whatever the constructor arguments, create_channel is invoked at most
\* once for an instance, and every read of grpc_channel returns the same
\* channel object.
C1_ChannelCreatedAtMostOnce ==
    \A i \in Instances :
        /\ Len(createLog[i]) <= 1
        /\ Cardinality(channelReads[i]) <= 1
        /\ channelReads[i] \subseteq {grpc_channel[i]}

\* C1 witness: a transport built without channel and endpoint whose channel
\* was created on first use and read again by later accesses.
C1_Witness ==
    /\ state["a"] = "ready"
    /\ Branch(args["a"].channel, args["a"].api_mtls_endpoint) = "lazy"
    /\ Len(createLog["a"]) = 1
    /\ channelReads["a"] = {grpc_channel["a"]}
    /\ Cardinality(DOMAIN stubs["a"]) >= 2

\* C2: for each method property, channel.unary_unary is called at most once,
\* and every access returns the stub the first access returned.
C2_StubCreatedAtMostOnce ==
    \A i \in Instances : \A key \in MethodKeys :
        /\ unaryCalls[i][key] <= 1
        /\ Cardinality(returned[i][key]) <= 1
        /\ key \in DOMAIN StubsOf(i) => returned[i][key] = {StubsOf(i)[key]}

\* C2 witness: every method property was accessed again after its stub was
\* cached.
C2_Witness ==
    \A key \in MethodKeys :
        /\ hit["a"][key]
        /\ unaryCalls["a"][key] = 1
        /\ Cardinality(returned["a"][key]) = 1

\* C3: the cache entry under each method name, and every stub the property
\* returns, is bound to the route of that method and of no other.
C3_StubBoundToOwnRoute ==
    \A i \in Instances :
        /\ \A key \in DOMAIN StubsOf(i) :
               StubsOf(i)[key].route = ExpectedRoute(key)
        /\ \A key \in MethodKeys : \A s \in returned[i][key] :
               s.route = ExpectedRoute(key)

\* C3 witness: all four stubs are cached.
C3_Witness ==
    /\ state["a"] = "ready"
    /\ DOMAIN stubs["a"] = MethodKeys

\* C4 as stated: whenever credentials and credentials_file are both passed,
\* whatever the other arguments, construction ends in DuplicateCredentialArgs.
C4_Original ==
    \A i \in Instances :
        (state[i] # "none" /\ BothCredentials(i))
            => (state[i] = "failed" /\ error[i] = "DuplicateCredentialArgs")

\* C4 amended: whenever credentials and credentials_file are both passed and
\* no channel is passed, construction ends in DuplicateCredentialArgs and no
\* usable instance results.
C4_DuplicateCredentialsWithoutChannel ==
    \A i \in Instances :
        (state[i] # "none" /\ BothCredentials(i)
            /\ ~TruthyChannel(args[i].channel))
            => (state[i] = "failed" /\ error[i] = "DuplicateCredentialArgs")

\* C4 witness: a construction with both credentials and an endpoint, and no
\* channel, that failed after the base constructor was reached.
C4_Witness ==
    /\ state["a"] = "failed"
    /\ error["a"] = "DuplicateCredentialArgs"
    /\ BothCredentials("a")
    /\ TruthySeq(args["a"].api_mtls_endpoint)
    /\ baseArgs["a"] # NoBaseArgs

\* C5 as stated: if api_mtls_endpoint is provided then, whatever the other
\* arguments, the base constructor is handed the endpoint's host and the
\* instance uses a mutual TLS channel created to that host.
C5_Original ==
    \A i \in Instances :
        (state[i] = "ready" /\ TruthySeq(args[i].api_mtls_endpoint))
            => /\ baseArgs[i].host = EndpointHost(args[i].api_mtls_endpoint)
               /\ grpc_channel[i].kind = "created"
               /\ Len(createLog[i]) = 1
               /\ createLog[i][1].host
                      = EndpointHost(args[i].api_mtls_endpoint)
               /\ createLog[i][1].ssl_credentials.kind
                      \in {"client_cert", "application_default"}

\* C6 as stated: when a channel is provided, neither the credentials nor the
\* credentials_file passed by the caller reaches the base constructor.
C6_Original ==
    \A i \in Instances :
        (state[i] = "ready" /\ TruthyChannel(args[i].channel))
            => /\ TruthyStr(args[i].credentials)
                      => baseArgs[i].credentials # args[i].credentials
               /\ TruthyStr(args[i].credentials_file)
                      => baseArgs[i].credentials_file
                             # args[i].credentials_file

\* C7: client_cert_source is never invoked when api_mtls_endpoint is None;
\* it is invoked at most once, only on the path that creates the mutual TLS
\* channel, and its (cert, key) result is the pair given to the SSL channel
\* credentials.
C7_CertSourceOnlyForMtls ==
    \A i \in Instances :
        /\ ~TruthySeq(args[i].api_mtls_endpoint) => certLog[i] = <<>>
        /\ Len(certLog[i]) <= 1
        /\ Len(certLog[i]) = 1
               => /\ ~TruthyChannel(args[i].channel)
                  /\ Len(createLog[i]) = 1
                  /\ createLog[i][1].ssl_credentials
                         = [kind |-> "client_cert",
                            certificate_chain |-> certLog[i][1][1],
                            private_key |-> certLog[i][1][2]]
                  /\ certLog[i][1][1].pem = "CERTIFICATE"
                  /\ certLog[i][1][1].of = args[i].client_cert_source

\* C7 witness: a mutual TLS transport built with a callback, used afterwards.
C7_Witness ==
    /\ state["a"] = "ready"
    /\ Len(certLog["a"]) = 1
    /\ channelReads["a"] # {}
    /\ DOMAIN stubs["a"] # {}

C9_LazyIndependentStubs ==
    [][\A i \in Instances :
          /\ (state[i] = "none" /\ state'[i] = "ready")
                 => (DOMAIN StubsOf(i)' = {} /\ made' = made)
          /\ \A key \in MethodKeys :
                 Access(i, key)
                     => /\ DOMAIN StubsOf(i) \subseteq DOMAIN StubsOf(i)'
                        /\ DOMAIN StubsOf(i)' \ DOMAIN StubsOf(i)
                               \subseteq {key}
                        /\ \A k \in DOMAIN StubsOf(i) :
                               StubsOf(i)'[k] = StubsOf(i)[k]
                        /\ grpc_channel[i] # NoChannel
                               => grpc_channel'[i] = grpc_channel[i]
      ]_vars

\* C9 witness: two of the four stubs are cached, on a channel that was
\* created on first use.
C9_Witness ==
    /\ state["a"] = "ready"
    /\ DOMAIN stubs["a"] = {"generate_id_token", "sign_blob"}
    /\ grpc_channel["a"].kind = "created"

\* C10: every stub a method property of an instance returns was created by
\* that instance on its own channel; no stub created through one instance
\* is returned by another.
C10_StubsPerInstance ==
    \A i \in Instances : \A key \in MethodKeys : \A s \in returned[i][key] :
        /\ s \in madeBy[i]
        /\ s.channel = grpc_channel[i]
        /\ \A j \in Instances \ {i} : s \notin madeBy[j]

\* C10 witness: two transports on the same passed channel, each having
\* returned its own sign_blob stub.
C10_Witness ==
    /\ state["a"] = "ready" /\ state["b"] = "ready"
    /\ grpc_channel["a"] = grpc_channel["b"]
    /\ grpc_channel["a"].kind = "passed"
    /\ returned["a"]["sign_blob"] # {}
    /\ returned["b"]["sign_blob"] # {}
    /\ returned["a"]["sign_blob"] # returned["b"]["sign_blob"]

====
